---- MODULE Spec2Model ----
(***************************************************************************)
(* A model of the mise VS Code extension core (src/src/extension.ts):      *)
(*   - MiseTasksProvider: getChildren / groupTasksBySource (task catalog), *)
(*     collectArgumentValues, runTask, watchTask;                          *)
(*   - MiseFileWatcher: initializeFileWatcher, handleFileChange, dispose.  *)
(* Every await of the source is a step boundary: an action issues the      *)
(* awaited call and a later action delivers its result and runs the code   *)
(* up to the next await.                                                   *)
(***************************************************************************)
EXTENDS Naturals, Sequences, FiniteSets

(***************************************************************************)
(* Bounds of the model.                                                    *)
(***************************************************************************)
MaxTasks == 3

MaxParams == 3

MaxEvents == 2

MaxConfigFiles == 1

(***************************************************************************)
(* JavaScript values.  `undefined` is a distinguished string; a value is   *)
(* falsy when it is undefined or the empty string (the only falsy values   *)
(* of type string | undefined).                                            *)
(***************************************************************************)
Undefined == "<undefined>"

Falsy(v) == v \in {Undefined, ""}

(***************************************************************************)
(* TASK CATALOG                                                            *)
(***************************************************************************)
VARIABLES
    tasks,          \* the task list of the latest miseService.getTasks()
    rootChildren,   \* what getChildren(undefined) returned for it
    groupChildren,  \* what getChildren(group) returned for the last expanded group
    treeStale       \* onDidChangeTreeData fired: the view will ask for the root again

catalogVars == <<tasks, rootChildren, groupChildren, treeStale>>

VARIABLES
    req             \* per command invocation: the state of its runTask / watchTask call

runnerVars == <<req>>

VARIABLES
    enabled,        \* isMiseExtensionEnabled(): the global setting
    watcherPc,      \* where the MiseFileWatcher's construction stands
    fileWatchers,   \* this.fileWatchers
    events,         \* per delivered file event: the state of its handleFileChange call
    probes,         \* number of execMiseCommand("tasks ls") calls made
    callbacks,      \* the uris onConfigChangeCallback was called with, in order
    logged,         \* number of logger calls made by the watcher
    disposeCalled   \* dispose() has been called

watcherVars ==
    <<enabled, watcherPc, fileWatchers, events, probes, callbacks, logged, disposeCalled>>

\* Task sources returned by the backend: absent, empty, configuration file
\* paths, and the literal name of the default group.
Sources == {Undefined, "", "/w/mise.toml", "/w/tasks/build", "Unknown"}

TaskNames == {"build", "test"}

\* MiseTask; the description plays no part in grouping and is left out.
MiseTask == [name : TaskNames, source : Sources]

RECURSIVE SeqsUpTo(_, _)
SeqsUpTo(S, n) ==
    IF n = 0 THEN {<<>>}
    ELSE LET shorter == SeqsUpTo(S, n - 1)
         IN  shorter \cup {Append(s, x) : s \in {t \in shorter : Len(t) = n - 1}, x \in S}

TaskLists == SeqsUpTo(MiseTask, MaxTasks)

\* A JavaScript object used as a dictionary: its own properties in insertion
\* order, each a key and a value.
HasKey(obj, k) == \E i \in DOMAIN obj : obj[i].key = k

\* GroupStep with the guard of line 113 lost: the group's array is created
\* anew for every task.
GroupStepNoGuard(groups, task) ==
    LET source == IF Falsy(task.source) THEN "Unknown" ELSE task.source
    IN  IF HasKey(groups, source)
        THEN [i \in DOMAIN groups |->
                IF groups[i].key = source THEN [groups[i] EXCEPT !.val = <<task>>] ELSE groups[i]]
        ELSE Append(groups, [key |-> source, val |-> <<task>>])

\* GroupStep with a new group put in front of the others, and a task put in
\* front of its group, instead of behind.
GroupStepPrepend(groups, task) ==
    LET source == IF Falsy(task.source) THEN "Unknown" ELSE task.source
        g1 == IF ~HasKey(groups, source)
              THEN <<[key |-> source, val |-> <<>>]>> \o groups
              ELSE groups
    IN  [i \in DOMAIN g1 |->
            IF g1[i].key = source
            THEN [g1[i] EXCEPT !.val = <<task>> \o @]
            ELSE g1[i]]

\* The reducer of groupTasksBySource (lines 111-118).
GroupStep(groups, task) ==
    LET source == IF Falsy(task.source) THEN "Unknown" ELSE task.source
        g1 == IF ~HasKey(groups, source)
              THEN Append(groups, [key |-> source, val |-> <<>>])
              ELSE groups
    IN  [i \in DOMAIN g1 |->
            IF g1[i].key = source
            THEN [g1[i] EXCEPT !.val = Append(@, task)]
            ELSE g1[i]]

RECURSIVE Reduce(_, _)
Reduce(ts, acc) ==
    IF ts = <<>> THEN acc ELSE Reduce(Tail(ts), GroupStep(acc, Head(ts)))

groupTasksBySource(ts) == Reduce(ts, <<>>)

\* Object.entries: the own properties in property order.  The keys here are
\* never array indices, so property order is insertion order.
ObjectEntries(obj) == [i \in DOMAIN obj |-> <<obj[i].key, obj[i].val>>]

SourceGroupItem(source, ts) == [source |-> source, tasks |-> ts]

TaskItem(task) == [task |-> task, label |-> task.name]

\* getChildren(undefined): lines 91-99.
RootChildren(ts) ==
    LET entries == ObjectEntries(groupTasksBySource(ts))
    IN  [i \in DOMAIN entries |-> SourceGroupItem(entries[i][1], entries[i][2])]

\* getChildren(element) for a SourceGroupItem: lines 101-104.
GroupChildren(element) == [i \in DOMAIN element.tasks |-> TaskItem(element.tasks[i])]

CatalogInit ==
    /\ tasks = <<>>
    /\ rootChildren = <<>>
    /\ groupChildren = <<>>
    /\ treeStale = TRUE

\* The tree view asks for the root: the backend returns a task list.
GetChildrenRoot ==
    /\ treeStale
    /\ \E ts \in TaskLists :
        /\ tasks' = ts
        /\ rootChildren' = RootChildren(ts)
    /\ groupChildren' = <<>>
    /\ treeStale' = FALSE
    /\ UNCHANGED <<runnerVars, watcherVars>>

\* The tree view expands one of the groups it was given.
GetChildrenGroup ==
    /\ ~treeStale
    /\ \E i \in DOMAIN rootChildren :
        groupChildren' = GroupChildren(rootChildren[i])
    /\ UNCHANGED <<tasks, rootChildren, treeStale>>
    /\ UNCHANGED <<runnerVars, watcherVars>>

\* refresh() (lines 82-84): the view drops what it shows and asks again.
Refresh ==
    /\ ~treeStale
    /\ tasks' = <<>>
    /\ rootChildren' = <<>>
    /\ groupChildren' = <<>>
    /\ treeStale' = TRUE
    /\ UNCHANGED <<runnerVars, watcherVars>>

CatalogNext == GetChildrenRoot \/ GetChildrenGroup \/ Refresh

(***************************************************************************)
(* TASK RUNNER: collectArgumentValues, runTask, watchTask                  *)
(***************************************************************************)
\* Command invocations (registerMiseCommands, lines 278-287), each with the
\* task name the command was given.
Reqs == {"r1", "r2"}

CommandArg(r) == IF r = "r1" THEN "build" ELSE "test"

\* Names of declared parameters, by position of declaration.
ArgName(i) == <<"file", "target", "profile", "extra", "more">>[i]

FlagName(i) == <<"--env", "--verbose", "--jobs", "--force", "--tag">>[i]

\* PositionalArg sequences of length n: names fixed, `required` free.
ArgSeqs(n) ==
    {[i \in 1..n |-> [name |-> ArgName(i), required |-> q[i]]] : q \in [1..n -> BOOLEAN]}

\* FlagArg sequences of length n: `arg` is the value's placeholder, or absent.
FlagSeqs(n) ==
    {[i \in 1..n |-> [name |-> FlagName(i), arg |-> a[i]]] : a \in [1..n -> {Undefined, "value"}]}

\* Usage specs with at most MaxParams declared parameters.
UsageSpecs ==
    UNION {{[args |-> a, flags |-> f] : a \in ArgSeqs(n), f \in FlagSeqs(m)} :
             <<n, m>> \in {nm \in (0..MaxParams) \X (0..MaxParams) : nm[1] + nm[2] <= MaxParams}}

EmptySpec == [args |-> <<>>, flags |-> <<>>]

\* What the user can answer: showInputBox resolves to undefined when it is
\* dismissed, to the typed text otherwise; showQuickPick to undefined when
\* dismissed, to the picked item otherwise.
TextAnswers == {Undefined, "", "x", "y"}

PickAnswers == {Undefined, "Yes", "No"}

\* Settled results of the awaited backend calls.
Pending == [status |-> "pending"]

NoTaskInfo == [found |-> FALSE, name |-> "", usageSpec |-> EmptySpec]

TaskInfoResults(name) ==
    {[status |-> "rejected", value |-> NoTaskInfo],
     [status |-> "fulfilled", value |-> NoTaskInfo]}
    \cup {[status |-> "fulfilled",
           value |-> [found |-> TRUE, name |-> name, usageSpec |-> u]] : u \in UsageSpecs}

ToolLists == {<<>>, <<"node">>, <<"node", "watchexec">>}

ToolsResults ==
    {[status |-> "rejected", value |-> <<>>]}
    \cup {[status |-> "fulfilled", value |-> t] : t \in ToolLists}

WhichResults ==
    {[status |-> "rejected", stdout |-> ""],
     [status |-> "fulfilled", stdout |-> ""],
     [status |-> "fulfilled", stdout |-> "/usr/bin/watchexec"]}

\* Prompts.
InputBox(label, placeHolder, validated) ==
    [kind |-> "inputBox", label |-> label, placeHolder |-> placeHolder, validated |-> validated]

QuickPick(question, name) ==
    [kind |-> "quickPick", label |-> name, placeHolder |-> question, validated |-> FALSE]

\* Errors and messages.
NotFoundError(name) == [type |-> "TaskNotFound", about |-> name]

MissingRequiredError(name) == [type |-> "RequiredArgumentNotProvided", about |-> name]

BackendError(op) == [type |-> "BackendFailed", about |-> op]

FailedToRun(name, error) == [text |-> "Failed to run task", task |-> name, error |-> error]

WatchexecRequired ==
    [text |-> "watchexec is required; install it with mise use -g watchexec",
     task |-> "", error |-> [type |-> "none", about |-> ""]]

IdleReq ==
    [kind |-> "none", taskName |-> "", pc |-> "idle",
     res1 |-> Pending, res2 |-> Pending,
     taskInfo |-> NoTaskInfo, collectorCalls |-> 0,
     argIdx |-> 0, flagIdx |-> 0, cmdArgs |-> <<>>,
     pending |-> <<>>, issued |-> <<>>, marks |-> <<>>, answered |-> <<>>,
     lookups |-> 0, settled |-> <<>>,
     calls |-> <<>>, msgs |-> <<>>, promise |-> "none"]

\* The fields of a request: kind, taskName and pc say which entry point runs
\* and where it is suspended; res1, res2, taskInfo, argIdx, flagIdx and
\* cmdArgs are the locals of watchTask, runTask and collectArgumentValues;
\* pending holds the prompts shown and not yet answered; promise is the
\* state of the promise the entry point returned.  The others record what
\* happened: issued (every prompt shown, in order), marks (the length of
\* cmdArgs when each was shown), answered (each prompt with its answer),
\* collectorCalls (calls of collectArgumentValues), lookups (calls of
\* getTaskInfo), settled (how each awaited backend call ended), calls (the
\* backend run/watch invocations) and msgs (the error messages shown).

RunnerInit == req = [r \in Reqs |-> IdleReq]

\* vscode.window.showErrorMessage
ShowErrorMessage(s, m) == [s EXCEPT !.msgs = Append(@, m)]

\* A catch block that rethrows instead of reporting: the error leaves the
\* entry point as a rejection of its promise.
CatchRethrow(s, error) == [s EXCEPT !.pc = "done", !.promise = "rejected"]

\* The catch blocks of runTask (198-202) and watchTask (235-239): the error
\* is shown and the async function returns.
Catch(s, error) ==
    [ShowErrorMessage(s, FailedToRun(s.taskName, error)) EXCEPT
        !.pc = "done", !.promise = "resolved"]

\* InvokeBackend without the spread of the collected arguments.
InvokeBackendNoArgs(s, args) ==
    [s EXCEPT
        !.pc = "invoking",
        !.calls = Append(@, [op |-> IF s.kind = "run" THEN "runTask" ELSE "watchTask",
                             name |-> s.taskName, args |-> <<>>])]

\* miseService.runTask(taskName, ...args) / miseService.watchTask(taskName, ...args)
\* is called and awaited (lines 194, 196, 231, 233).
InvokeBackend(s, args) ==
    [s EXCEPT
        !.pc = "invoking",
        !.calls = Append(@, [op |-> IF s.kind = "run" THEN "runTask" ELSE "watchTask",
                             name |-> s.taskName, args |-> args])]

\* A prompt is shown and awaited.
Issue(s, p, at) ==
    [s EXCEPT !.pc = at, !.pending = Append(@, p), !.issued = Append(@, p),
              !.marks = Append(@, Len(s.cmdArgs))]

\* The prompt's answer arrives.
Answered(s, answer) ==
    [s EXCEPT !.pending = Tail(@), !.answered = Append(@, [prompt |-> Head(s.pending), answer |-> answer])]

\* validateInput of the positional argument's input box (lines 133-138):
\* TRUE when the value is accepted.
ValidateInput(arg, value) == ~(arg.required /\ Falsy(value))

\* Continue with the two loops of collectArgumentValues in the other order.
ContinueFlagsFirst(s) ==
    LET spec == s.taskInfo.usageSpec
    IN  IF s.flagIdx <= Len(spec.flags)
        THEN LET flag == spec.flags[s.flagIdx]
             IN  IF ~Falsy(flag.arg)
                 THEN Issue(s, QuickPick("Do you want to provide?", flag.name), "flagPick")
                 ELSE Issue(s, QuickPick("Enable?", flag.name), "boolPick")
        ELSE IF s.argIdx <= Len(spec.args)
        THEN LET arg == spec.args[s.argIdx]
             IN  Issue(s, InputBox(arg.name, arg.name, arg.required), "argInput")
        ELSE InvokeBackend(s, s.cmdArgs)

\* collectArgumentValues from the head of its loops: the next iteration of
\* the args loop (128), else of the flags loop (148), else `return cmdArgs`
\* (179) into the caller, which invokes the backend (194, 231).
Continue(s) ==
    LET spec == s.taskInfo.usageSpec
    IN  IF s.argIdx <= Len(spec.args)
        THEN LET arg == spec.args[s.argIdx]
             IN  Issue(s, InputBox(arg.name, arg.name, arg.required), "argInput")
        ELSE IF s.flagIdx <= Len(spec.flags)
        THEN LET flag == spec.flags[s.flagIdx]
             IN  IF ~Falsy(flag.arg)
                 THEN Issue(s, QuickPick("Do you want to provide?", flag.name), "flagPick")
                 ELSE Issue(s, QuickPick("Enable?", flag.name), "boolPick")
        ELSE InvokeBackend(s, s.cmdArgs)

\* AfterArgInput without the test of line 143: every argument left empty
\* throws.
AfterArgInputAllRequired(s, value) ==
    LET arg == s.taskInfo.usageSpec.args[s.argIdx]
    IN  IF ~Falsy(value)
        THEN Continue([s EXCEPT !.cmdArgs = Append(@, value), !.argIdx = @ + 1])
        ELSE Catch(s, MissingRequiredError(arg.name))

\* AfterArgInput without the throw of lines 143-145: a required argument left
\* empty is skipped like an optional one.
AfterArgInputNoThrow(s, value) ==
    IF ~Falsy(value)
    THEN Continue([s EXCEPT !.cmdArgs = Append(@, value), !.argIdx = @ + 1])
    ELSE Continue([s EXCEPT !.argIdx = @ + 1])

\* Lines 141-145: the answer to a positional argument's input box.
AfterArgInput(s, value) ==
    LET arg == s.taskInfo.usageSpec.args[s.argIdx]
    IN  IF ~Falsy(value)
        THEN Continue([s EXCEPT !.cmdArgs = Append(@, value), !.argIdx = @ + 1])
        ELSE IF arg.required
        THEN Catch(s, MissingRequiredError(arg.name))
        ELSE Continue([s EXCEPT !.argIdx = @ + 1])

\* Lines 155-160: the answer to "Do you want to provide <flag>?".
AfterFlagPick(s, choice) ==
    LET flag == s.taskInfo.usageSpec.flags[s.flagIdx]
    IN  IF choice = "Yes"
        THEN Issue(s, InputBox(flag.name, flag.arg, FALSE), "flagValue")
        ELSE Continue([s EXCEPT !.flagIdx = @ + 1])

\* AfterFlagValue pushing the flag's name before it tests the value.
AfterFlagValueNameFirst(s, value) ==
    LET flag == s.taskInfo.usageSpec.flags[s.flagIdx]
    IN  IF ~Falsy(value)
        THEN Continue([s EXCEPT !.cmdArgs = @ \o <<flag.name, value>>, !.flagIdx = @ + 1])
        ELSE Continue([s EXCEPT !.cmdArgs = Append(@, flag.name), !.flagIdx = @ + 1])

\* AfterFlagValue testing `value !== undefined` for `value`: an empty value
\* is pushed, a cancelled one is not.
AfterFlagValueDefined(s, value) ==
    LET flag == s.taskInfo.usageSpec.flags[s.flagIdx]
    IN  IF value # Undefined
        THEN Continue([s EXCEPT !.cmdArgs = @ \o <<flag.name, value>>, !.flagIdx = @ + 1])
        ELSE Continue([s EXCEPT !.flagIdx = @ + 1])

\* Lines 162-164: the answer to the flag's value input box.
AfterFlagValue(s, value) ==
    LET flag == s.taskInfo.usageSpec.flags[s.flagIdx]
    IN  IF ~Falsy(value)
        THEN Continue([s EXCEPT !.cmdArgs = @ \o <<flag.name, value>>, !.flagIdx = @ + 1])
        ELSE Continue([s EXCEPT !.flagIdx = @ + 1])

\* AfterBoolPick testing `!== "No"` for `=== "Yes"`: a dismissed choice
\* enables the flag.
AfterBoolPickNotNo(s, choice) ==
    LET flag == s.taskInfo.usageSpec.flags[s.flagIdx]
    IN  IF choice # "No"
        THEN Continue([s EXCEPT !.cmdArgs = Append(@, flag.name), !.flagIdx = @ + 1])
        ELSE Continue([s EXCEPT !.flagIdx = @ + 1])

\* Lines 173-175: the answer to "Enable <flag>?".
AfterBoolPick(s, choice) ==
    LET flag == s.taskInfo.usageSpec.flags[s.flagIdx]
    IN  IF choice = "Yes"
        THEN Continue([s EXCEPT !.cmdArgs = Append(@, flag.name), !.flagIdx = @ + 1])
        ELSE Continue([s EXCEPT !.flagIdx = @ + 1])

\* AfterTaskInfo without the test of lines 185-187: a lookup that returned
\* nothing is used as a task without parameters.
AfterTaskInfoNoNullCheck(s, res) ==
    IF res.status = "rejected"
    THEN Catch(s, BackendError("getTaskInfo"))
    ELSE LET spec == res.value.usageSpec
             s1 == [s EXCEPT !.taskInfo = res.value]
         IN  IF Len(spec.args) > 0 \/ Len(spec.flags) > 0
             THEN Continue([s1 EXCEPT !.collectorCalls = @ + 1, !.cmdArgs = <<>>,
                                      !.argIdx = 1, !.flagIdx = 1])
             ELSE InvokeBackend(s1, <<>>)

\* AfterTaskInfo without the test of lines 189-192: the collector is called
\* for every task.
AfterTaskInfoAlwaysCollect(s, res) ==
    IF res.status = "rejected"
    THEN Catch(s, BackendError("getTaskInfo"))
    ELSE IF ~res.value.found
    THEN Catch(s, NotFoundError(s.taskName))
    ELSE Continue([s EXCEPT !.taskInfo = res.value, !.collectorCalls = @ + 1,
                            !.cmdArgs = <<>>, !.argIdx = 1, !.flagIdx = 1])

\* Lines 184-197 / 221-234: getTaskInfo has settled.
AfterTaskInfo(s, res) ==
    IF res.status = "rejected"
    THEN Catch(s, BackendError("getTaskInfo"))
    ELSE IF ~res.value.found
    THEN Catch(s, NotFoundError(s.taskName))
    ELSE LET spec == res.value.usageSpec
             s1 == [s EXCEPT !.taskInfo = res.value]
         IN  IF Len(spec.args) > 0 \/ Len(spec.flags) > 0
             THEN Continue([s1 EXCEPT !.collectorCalls = @ + 1, !.cmdArgs = <<>>,
                                      !.argIdx = 1, !.flagIdx = 1])
             ELSE InvokeBackend(s1, <<>>)

\* The awaited backend run/watch has settled (end of the try block).
AfterBackend(s, ok) ==
    IF ok
    THEN [s EXCEPT !.pc = "done", !.promise = "resolved"]
    ELSE Catch(s, BackendError(s.calls[Len(s.calls)].op))

\* miseService.getTaskInfo(taskName) is called and awaited (lines 184, 221).
GetTaskInfo(s) == [s EXCEPT !.pc = "getInfo", !.lookups = @ + 1]

\* AfterProbes as after Promise.all: a rejected probe is an error of the
\* watch, reported like the others.
AfterProbesFailClosed(s) ==
    LET tools == IF s.res1.status = "fulfilled" THEN s.res1.value ELSE <<>>
        watchexecFromTools == \E i \in DOMAIN tools : tools[i] = "watchexec"
        watchexec == IF s.res2.status = "fulfilled" THEN s.res2.stdout ELSE ""
    IN  IF s.res1.status = "rejected" \/ s.res2.status = "rejected"
        THEN Catch(s, BackendError("probe"))
        ELSE IF Falsy(watchexec) /\ ~watchexecFromTools
        THEN [ShowErrorMessage(s, WatchexecRequired) EXCEPT !.pc = "done", !.promise = "resolved"]
        ELSE GetTaskInfo(s)

\* AfterProbes with || for && in line 213: watch mode is refused as soon as
\* one of the two sources does not find watchexec.
AfterProbesEither(s) ==
    LET tools == IF s.res1.status = "fulfilled" THEN s.res1.value ELSE <<>>
        watchexecFromTools == \E i \in DOMAIN tools : tools[i] = "watchexec"
        watchexec == IF s.res2.status = "fulfilled" THEN s.res2.stdout ELSE ""
    IN  IF Falsy(watchexec) \/ ~watchexecFromTools
        THEN [ShowErrorMessage(s, WatchexecRequired) EXCEPT !.pc = "done", !.promise = "resolved"]
        ELSE GetTaskInfo(s)

\* Lines 210-218 and 221: both probes have settled.
AfterProbes(s) ==
    LET tools == IF s.res1.status = "fulfilled" THEN s.res1.value ELSE <<>>
        watchexecFromTools == \E i \in DOMAIN tools : tools[i] = "watchexec"
        watchexec == IF s.res2.status = "fulfilled" THEN s.res2.stdout ELSE ""
    IN  IF Falsy(watchexec) /\ ~watchexecFromTools
        THEN [ShowErrorMessage(s, WatchexecRequired) EXCEPT !.pc = "done", !.promise = "resolved"]
        ELSE GetTaskInfo(s)

\* Set with cmdArgs kept in a field of the provider instead of a local of
\* collectArgumentValues: every call sees the tokens of the call that
\* stepped last.
SetSharedArgs(r, s) ==
    req' = [o \in Reqs |-> IF o = r THEN s ELSE [req[o] EXCEPT !.cmdArgs = s.cmdArgs]]

Set(r, s) == req' = [req EXCEPT ![r] = s]

\* The record of how an awaited backend call ended.
Settled(s, call, outcome) == [s EXCEPT !.settled = Append(@, [call |-> call, outcome |-> outcome])]

TaskInfoOutcome(res) ==
    IF res.status = "rejected" THEN "rejected"
    ELSE IF res.value.found THEN "found" ELSE "undefined"

\* mise.runTask: runTask(taskName) runs to its first await (line 184).
RunTask(r) ==
    /\ req[r].pc = "idle"
    /\ Set(r, GetTaskInfo([req[r] EXCEPT !.kind = "run", !.taskName = CommandArg(r),
                                          !.promise = "pending"]))
    /\ UNCHANGED <<catalogVars, watcherVars>>

\* mise.watchTask: watchTask(taskName) runs to its first await (line 206),
\* with both probes started.
WatchTask(r) ==
    /\ req[r].pc = "idle"
    /\ Set(r, [req[r] EXCEPT !.kind = "watch", !.taskName = CommandArg(r),
                              !.pc = "probing", !.promise = "pending"])
    /\ UNCHANGED <<catalogVars, watcherVars>>

\* miseService.getTools() settles.
ToolsSettle(r) ==
    /\ req[r].pc = "probing"
    /\ req[r].res1 = Pending
    /\ \E res \in ToolsResults : Set(r, [req[r] EXCEPT !.res1 = res])
    /\ UNCHANGED <<catalogVars, watcherVars>>

\* execAsync("which watchexec") settles.
WhichSettle(r) ==
    /\ req[r].pc = "probing"
    /\ req[r].res2 = Pending
    /\ \E res \in WhichResults : Set(r, [req[r] EXCEPT !.res2 = res])
    /\ UNCHANGED <<catalogVars, watcherVars>>

\* WatchDecide as after Promise.race: watchTask resumes when the first of
\* the two probes has settled.
WatchDecideEarly(r) ==
    /\ req[r].pc = "probing"
    /\ req[r].res1 # Pending \/ req[r].res2 # Pending
    /\ Set(r, AfterProbes(req[r]))
    /\ UNCHANGED <<catalogVars, watcherVars>>

\* Promise.allSettled resolves: watchTask resumes after line 209.
WatchDecide(r) ==
    /\ req[r].pc = "probing"
    /\ req[r].res1 # Pending
    /\ req[r].res2 # Pending
    /\ Set(r, AfterProbes(req[r]))
    /\ UNCHANGED <<catalogVars, watcherVars>>

GetTaskInfoSettle(r) ==
    /\ req[r].pc = "getInfo"
    /\ \E res \in TaskInfoResults(req[r].taskName) :
        Set(r, AfterTaskInfo(Settled(req[r], "getTaskInfo", TaskInfoOutcome(res)), res))
    /\ UNCHANGED <<catalogVars, watcherVars>>

AnswerArgInput(r) ==
    /\ req[r].pc = "argInput"
    /\ \E value \in TextAnswers :
        /\ value = Undefined
           \/ ValidateInput(req[r].taskInfo.usageSpec.args[req[r].argIdx], value)
        /\ Set(r, AfterArgInput(Answered(req[r], value), value))
    /\ UNCHANGED <<catalogVars, watcherVars>>

AnswerFlagPick(r) ==
    /\ req[r].pc = "flagPick"
    /\ \E choice \in PickAnswers : Set(r, AfterFlagPick(Answered(req[r], choice), choice))
    /\ UNCHANGED <<catalogVars, watcherVars>>

AnswerFlagValue(r) ==
    /\ req[r].pc = "flagValue"
    /\ \E value \in TextAnswers : Set(r, AfterFlagValue(Answered(req[r], value), value))
    /\ UNCHANGED <<catalogVars, watcherVars>>

AnswerBoolPick(r) ==
    /\ req[r].pc = "boolPick"
    /\ \E choice \in PickAnswers : Set(r, AfterBoolPick(Answered(req[r], choice), choice))
    /\ UNCHANGED <<catalogVars, watcherVars>>

BackendSettle(r) ==
    /\ req[r].pc = "invoking"
    /\ \E ok \in BOOLEAN :
        Set(r, AfterBackend(Settled(req[r], "backend", IF ok THEN "fulfilled" ELSE "rejected"), ok))
    /\ UNCHANGED <<catalogVars, watcherVars>>

RunnerStep(r) ==
    \/ RunTask(r)
    \/ WatchTask(r)
    \/ ToolsSettle(r)
    \/ WhichSettle(r)
    \/ WatchDecide(r)
    \/ GetTaskInfoSettle(r)
    \/ AnswerArgInput(r)
    \/ AnswerFlagPick(r)
    \/ AnswerFlagValue(r)
    \/ AnswerBoolPick(r)
    \/ BackendSettle(r)

\* One command invocation at a time.
Next == RunnerStep("r1")

\* Two command invocations that overlap: the steps of both interleave in
\* every order.  Each task has one usage spec: "build" a required argument
\* and a valued flag, "test" an optional argument and a boolean flag.
OverlapUsageSpec(name) ==
    IF name = "build"
    THEN [args |-> <<[name |-> ArgName(1), required |-> TRUE]>>,
          flags |-> <<[name |-> FlagName(1), arg |-> "value"]>>]
    ELSE [args |-> <<[name |-> ArgName(1), required |-> FALSE]>>,
          flags |-> <<[name |-> FlagName(1), arg |-> Undefined]>>]

OverlapTaskInfoResults(name) ==
    {res \in TaskInfoResults(name) :
        res.value.found => res.value.usageSpec = OverlapUsageSpec(name)}

OverlapGetTaskInfoSettle(r) ==
    /\ req[r].pc = "getInfo"
    /\ \E res \in OverlapTaskInfoResults(req[r].taskName) :
        Set(r, AfterTaskInfo(Settled(req[r], "getTaskInfo", TaskInfoOutcome(res)), res))
    /\ UNCHANGED <<catalogVars, watcherVars>>

OverlapStep(r) ==
    \/ RunTask(r)
    \/ WatchTask(r)
    \/ ToolsSettle(r)
    \/ WhichSettle(r)
    \/ WatchDecide(r)
    \/ OverlapGetTaskInfoSettle(r)
    \/ AnswerArgInput(r)
    \/ AnswerFlagPick(r)
    \/ AnswerFlagValue(r)
    \/ AnswerBoolPick(r)
    \/ BackendSettle(r)

OverlapNext == OverlapStep("r1") \/ OverlapStep("r2")

\* Two invocations of the same command that get the same results from the
\* backend and the same answers from the user, except that every text prompt
\* of "r2" that "r1" has answered empty or cancelled is cancelled.  Each
\* step is the step of the same name above, taken by both.
Cancelled(value) == IF Falsy(value) THEN Undefined ELSE value

Set2(s1, s2) == req' = [req EXCEPT !["r1"] = s1, !["r2"] = s2]

BothAt(pc) == req["r1"].pc = pc /\ req["r2"].pc = pc

TwinRunTask ==
    /\ BothAt("idle")
    /\ Set2(GetTaskInfo([req["r1"] EXCEPT !.kind = "run", !.taskName = CommandArg("r1"),
                                           !.promise = "pending"]),
            GetTaskInfo([req["r2"] EXCEPT !.kind = "run", !.taskName = CommandArg("r2"),
                                           !.promise = "pending"]))
    /\ UNCHANGED <<catalogVars, watcherVars>>

TwinWatchTask ==
    /\ BothAt("idle")
    /\ Set2([req["r1"] EXCEPT !.kind = "watch", !.taskName = CommandArg("r1"),
                              !.pc = "probing", !.promise = "pending"],
            [req["r2"] EXCEPT !.kind = "watch", !.taskName = CommandArg("r2"),
                              !.pc = "probing", !.promise = "pending"])
    /\ UNCHANGED <<catalogVars, watcherVars>>

TwinToolsSettle ==
    /\ BothAt("probing")
    /\ req["r1"].res1 = Pending /\ req["r2"].res1 = Pending
    /\ \E res \in ToolsResults :
        Set2([req["r1"] EXCEPT !.res1 = res], [req["r2"] EXCEPT !.res1 = res])
    /\ UNCHANGED <<catalogVars, watcherVars>>

TwinWhichSettle ==
    /\ BothAt("probing")
    /\ req["r1"].res2 = Pending /\ req["r2"].res2 = Pending
    /\ \E res \in WhichResults :
        Set2([req["r1"] EXCEPT !.res2 = res], [req["r2"] EXCEPT !.res2 = res])
    /\ UNCHANGED <<catalogVars, watcherVars>>

TwinWatchDecide ==
    /\ BothAt("probing")
    /\ \A r \in Reqs : req[r].res1 # Pending /\ req[r].res2 # Pending
    /\ Set2(AfterProbes(req["r1"]), AfterProbes(req["r2"]))
    /\ UNCHANGED <<catalogVars, watcherVars>>

TwinGetTaskInfoSettle ==
    /\ BothAt("getInfo")
    /\ \E res1 \in TaskInfoResults(req["r1"].taskName),
          res2 \in TaskInfoResults(req["r2"].taskName) :
        /\ res1.status = res2.status
        /\ res1.value.found = res2.value.found
        /\ res1.value.usageSpec = res2.value.usageSpec
        /\ Set2(AfterTaskInfo(Settled(req["r1"], "getTaskInfo", TaskInfoOutcome(res1)), res1),
                AfterTaskInfo(Settled(req["r2"], "getTaskInfo", TaskInfoOutcome(res2)), res2))
    /\ UNCHANGED <<catalogVars, watcherVars>>

TwinAnswerArgInput ==
    /\ BothAt("argInput")
    /\ \E value \in TextAnswers :
        /\ value = Undefined
           \/ ValidateInput(req["r1"].taskInfo.usageSpec.args[req["r1"].argIdx], value)
        /\ Set2(AfterArgInput(Answered(req["r1"], value), value),
                AfterArgInput(Answered(req["r2"], Cancelled(value)), Cancelled(value)))
    /\ UNCHANGED <<catalogVars, watcherVars>>

TwinAnswerFlagPick ==
    /\ BothAt("flagPick")
    /\ \E choice \in PickAnswers :
        Set2(AfterFlagPick(Answered(req["r1"], choice), choice),
             AfterFlagPick(Answered(req["r2"], choice), choice))
    /\ UNCHANGED <<catalogVars, watcherVars>>

TwinAnswerFlagValue ==
    /\ BothAt("flagValue")
    /\ \E value \in TextAnswers :
        Set2(AfterFlagValue(Answered(req["r1"], value), value),
             AfterFlagValue(Answered(req["r2"], Cancelled(value)), Cancelled(value)))
    /\ UNCHANGED <<catalogVars, watcherVars>>

TwinAnswerBoolPick ==
    /\ BothAt("boolPick")
    /\ \E choice \in PickAnswers :
        Set2(AfterBoolPick(Answered(req["r1"], choice), choice),
             AfterBoolPick(Answered(req["r2"], choice), choice))
    /\ UNCHANGED <<catalogVars, watcherVars>>

TwinBackendSettle ==
    /\ BothAt("invoking")
    /\ \E ok \in BOOLEAN :
        Set2(AfterBackend(Settled(req["r1"], "backend", IF ok THEN "fulfilled" ELSE "rejected"), ok),
             AfterBackend(Settled(req["r2"], "backend", IF ok THEN "fulfilled" ELSE "rejected"), ok))
    /\ UNCHANGED <<catalogVars, watcherVars>>

TwinNext ==
    \/ TwinRunTask
    \/ TwinWatchTask
    \/ TwinToolsSettle
    \/ TwinWhichSettle
    \/ TwinWatchDecide
    \/ TwinGetTaskInfoSettle
    \/ TwinAnswerArgInput
    \/ TwinAnswerFlagPick
    \/ TwinAnswerFlagValue
    \/ TwinAnswerBoolPick
    \/ TwinBackendSettle

(***************************************************************************)
(* FILE WATCHER: MiseFileWatcher                                           *)
(***************************************************************************)
EventIds == 1..MaxEvents

Uris == {"/w/mise.toml", "/w/tasks/build"}

\* vscode.workspace.createFileSystemWatcher(pattern): a watch that is active
\* until disposed; `subscribed` when pushed to context.subscriptions and
\* `handlers` when handleFileChange is bound to its three events.
FileSystemWatcher(pattern) ==
    [pattern |-> pattern, disposed |-> FALSE, subscribed |-> FALSE, handlers |-> FALSE]

ConfigFilePattern(i) == <<"cfg1/*", "cfg2/*", "cfg3/*">>[i]

\* A handleFileChange call: pc, uri, promise (of the async call), probed
\* (the probe was started), called (calls of the callback) and logs (logger
\* calls) are the call's; enabledAtArrival, failuresBefore (logger calls made
\* before the event arrived) and probeResult record what happened around it.
NoEvent ==
    [pc |-> "unused", uri |-> "", promise |-> "none", probed |-> FALSE, called |-> 0,
     logs |-> 0, enabledAtArrival |-> FALSE, failuresBefore |-> 0, probeResult |-> "none"]

WatcherInit ==
    /\ enabled = TRUE
    /\ watcherPc = "new"
    /\ fileWatchers = <<>>
    /\ events = [e \in EventIds |-> NoEvent]
    /\ probes = 0
    /\ callbacks = <<>>
    /\ logged = 0
    /\ disposeCalled = FALSE

\* Lines 358-363: every watcher is pushed to the subscriptions and gets the
\* three handlers.
Register(ws) == [i \in DOMAIN ws |-> [ws[i] EXCEPT !.subscribed = TRUE, !.handlers = TRUE]]

\* Lines 335-363: initializeFileWatcher after getMiseConfigFiles resolved
\* with n files.
AfterConfigFiles(ws, n) ==
    Register(ws
             \o [i \in 1..n |-> FileSystemWatcher(ConfigFilePattern(i))]
             \o <<FileSystemWatcher("idiomaticFiles"), FileSystemWatcher("taskDirs")>>)

\* dispose(), lines 382-386.
DisposeAll(ws) == [i \in DOMAIN ws |-> [ws[i] EXCEPT !.disposed = TRUE]]

\* new MiseFileWatcher(...): the constructor and initializeFileWatcher up to
\* its first await (line 334), or its return when there is no root folder.
ConstructWatcher ==
    /\ watcherPc = "new"
    /\ \E rootFolder \in BOOLEAN :
        IF ~rootFolder
        THEN /\ watcherPc' = "noRoot"
             /\ fileWatchers' = <<>>
        ELSE /\ watcherPc' = "awaitConfigFiles"
             /\ fileWatchers' = <<FileSystemWatcher("misePatterns")>>
    /\ UNCHANGED <<enabled, events, probes, callbacks, logged, disposeCalled>>
    /\ UNCHANGED <<catalogVars, runnerVars>>

\* getMiseConfigFiles() settles: the rest of initializeFileWatcher runs, or
\* its rejection is logged by the constructor's catch (lines 316-319).
ConfigFilesSettle ==
    /\ watcherPc = "awaitConfigFiles"
    /\ \/ /\ \E n \in 0..MaxConfigFiles : fileWatchers' = AfterConfigFiles(fileWatchers, n)
          /\ watcherPc' = "ready"
          /\ UNCHANGED logged
       \/ /\ watcherPc' = "initFailed"
          /\ logged' = logged + 2
          /\ UNCHANGED fileWatchers
    /\ UNCHANGED <<enabled, events, probes, callbacks, disposeCalled>>
    /\ UNCHANGED <<catalogVars, runnerVars>>

Dispose ==
    /\ watcherPc # "new"
    /\ fileWatchers' = DisposeAll(fileWatchers)
    /\ disposeCalled' = TRUE
    /\ UNCHANGED <<enabled, watcherPc, events, probes, callbacks, logged>>
    /\ UNCHANGED <<catalogVars, runnerVars>>

\* The user switches the extension's enabled setting.
ToggleEnabled ==
    /\ enabled' = ~enabled
    /\ UNCHANGED <<watcherPc, fileWatchers, events, probes, callbacks, logged, disposeCalled>>
    /\ UNCHANGED <<catalogVars, runnerVars>>

\* handleFileChange without the test of lines 367-369.
HandleFileChangeUnchecked(ev, uri) ==
    [ev EXCEPT !.pc = "probing", !.uri = uri, !.promise = "pending", !.probed = TRUE]

\* handleFileChange(uri) up to its first await (lines 367-372).
HandleFileChange(ev, uri) ==
    IF ~enabled
    THEN [ev EXCEPT !.pc = "done", !.uri = uri, !.promise = "resolved"]
    ELSE [ev EXCEPT !.pc = "probing", !.uri = uri, !.promise = "pending", !.probed = TRUE]

\* An active watcher with handlers reports a change, creation or deletion:
\* handleFileChange is called with the path.
FileEvent(e) ==
    /\ events[e].pc = "unused"
    /\ \A d \in EventIds : d < e => events[d].pc # "unused"
    /\ \E i \in DOMAIN fileWatchers : fileWatchers[i].handlers /\ ~fileWatchers[i].disposed
    /\ \E uri \in Uris :
        /\ events' = [events EXCEPT
                        ![e] = [HandleFileChange(events[e], uri) EXCEPT
                                   !.enabledAtArrival = enabled, !.failuresBefore = logged]]
        /\ probes' = IF HandleFileChange(events[e], uri).probed THEN probes + 1 ELSE probes
    /\ UNCHANGED <<enabled, watcherPc, fileWatchers, callbacks, logged, disposeCalled>>
    /\ UNCHANGED <<catalogVars, runnerVars>>

ProbeResults ==
    {[status |-> "rejected", stdout |-> ""],
     [status |-> "fulfilled", stdout |-> ""],
     [status |-> "fulfilled", stdout |-> "build  /w/mise.toml"]}

ProbeOutcome(res) ==
    IF res.status = "rejected" THEN "rejected"
    ELSE IF res.stdout = "" THEN "empty" ELSE "output"

\* AfterProbe without the try/catch of lines 371-379: a rejected probe
\* rejects handleFileChange.
AfterProbeRethrow(ev, res) ==
    IF res.status = "rejected"
    THEN [ev EXCEPT !.pc = "done", !.promise = "rejected"]
    ELSE IF ~Falsy(res.stdout)
    THEN [ev EXCEPT !.pc = "callback", !.called = @ + 1]
    ELSE [ev EXCEPT !.pc = "done", !.promise = "resolved"]

\* AfterProbe without the test of line 374: the callback is called after
\* every probe that did not reject.
AfterProbeAnyOutput(ev, res) ==
    IF res.status = "rejected"
    THEN [ev EXCEPT !.pc = "done", !.promise = "resolved", !.logs = @ + 1]
    ELSE [ev EXCEPT !.pc = "callback", !.called = @ + 1]

\* Lines 372-379 once the probe has settled: a rejection goes to the catch
\* and is logged; the callback is called and awaited when the probe printed
\* anything; else handleFileChange returns.
AfterProbe(ev, res) ==
    IF res.status = "rejected"
    THEN [ev EXCEPT !.pc = "done", !.promise = "resolved", !.logs = @ + 1]
    ELSE IF ~Falsy(res.stdout)
    THEN [ev EXCEPT !.pc = "callback", !.called = @ + 1]
    ELSE [ev EXCEPT !.pc = "done", !.promise = "resolved"]

\* Lines 375-379 once the callback has settled: its rejection is logged too.
AfterCallback(ev, ok) ==
    IF ok
    THEN [ev EXCEPT !.pc = "done", !.promise = "resolved"]
    ELSE [ev EXCEPT !.pc = "done", !.promise = "resolved", !.logs = @ + 1]

\* execMiseCommand("tasks ls") settles.
ProbeSettle(e) ==
    /\ events[e].pc = "probing"
    /\ \E res \in ProbeResults :
        LET ev == AfterProbe(events[e], res)
        IN  /\ events' = [events EXCEPT ![e] = [ev EXCEPT !.probeResult = ProbeOutcome(res)]]
            /\ callbacks' = IF ev.called > events[e].called
                            THEN Append(callbacks, events[e].uri)
                            ELSE callbacks
            /\ logged' = logged + (ev.logs - events[e].logs)
    /\ UNCHANGED <<enabled, watcherPc, fileWatchers, probes, disposeCalled>>
    /\ UNCHANGED <<catalogVars, runnerVars>>

\* The awaited onConfigChangeCallback(uri) settles.
CallbackSettle(e) ==
    /\ events[e].pc = "callback"
    /\ \E ok \in BOOLEAN :
        LET ev == AfterCallback(events[e], ok)
        IN  /\ events' = [events EXCEPT ![e] = ev]
            /\ logged' = logged + (ev.logs - events[e].logs)
    /\ UNCHANGED <<enabled, watcherPc, fileWatchers, probes, callbacks, disposeCalled>>
    /\ UNCHANGED <<catalogVars, runnerVars>>

WatcherNext ==
    \/ ConstructWatcher
    \/ ConfigFilesSettle
    \/ Dispose
    \/ ToggleEnabled
    \/ \E e \in EventIds : FileEvent(e) \/ ProbeSettle(e) \/ CallbackSettle(e)

vars == <<catalogVars, runnerVars, watcherVars>>


Init == CatalogInit /\ RunnerInit /\ WatcherInit

Spec == Init /\ [][Next]_vars

SpecCatalog == Init /\ [][CatalogNext]_vars

SpecOverlap == Init /\ [][OverlapNext]_vars

SpecTwin == Init /\ [][TwinNext]_vars

SpecWatcher == Init /\ [][WatcherNext]_vars


(***************************************************************************)
(* CLAIMS                                                                  *)
(***************************************************************************)
Count(seq, x) == Cardinality({i \in DOMAIN seq : seq[i] = x})

RECURSIVE SumOver(_, _)
SumOver(f, S) ==
    IF S = {} THEN 0
    ELSE LET x == CHOOSE y \in S : TRUE IN f[x] + SumOver(f, S \ {x})

\* The group a task belongs to: its source, "Unknown" when it has none.
GroupKeyOf(task) ==
    IF task.source = Undefined \/ task.source = "" THEN "Unknown" ELSE task.source

\* C1: grouping by source puts every fetched task in exactly one group, the
\* one keyed by its source ("Unknown" for an empty or absent source), and
\* the groups together hold exactly the fetched multiset of tasks: nothing
\* is lost or added and backend duplicates are kept.
C1_GroupingPartitions ==
    /\ \A i, j \in DOMAIN rootChildren :
          rootChildren[i].source = rootChildren[j].source => i = j
    /\ \A i \in DOMAIN rootChildren :
          \A k \in DOMAIN rootChildren[i].tasks :
              GroupKeyOf(rootChildren[i].tasks[k]) = rootChildren[i].source
    /\ \A t \in MiseTask :
          Count(tasks, t)
            = SumOver([i \in DOMAIN rootChildren |-> Count(rootChildren[i].tasks, t)],
                      DOMAIN rootChildren)

\* A fetch with a duplicated task, a task without source and two groups.
C1_Witness ==
    /\ ~treeStale
    /\ Len(tasks) = 3
    /\ tasks[1] = tasks[3]
    /\ tasks[2].source = Undefined
    /\ Len(rootChildren) = 2
    /\ rootChildren[2].source = "Unknown"


\* Which prompt of a usage spec a shown prompt is.
IsArgPrompt(p, spec, i) == p.kind = "inputBox" /\ p.label = spec.args[i].name

\* An answer that is empty or a cancellation.
NoAnswer(a) == a = Undefined \/ a = ""

BackendOp(kind) == IF kind = "run" THEN "runTask" ELSE "watchTask"

\* C2: once a required positional argument is answered empty or cancelled,
\* run/watch has ended with the missing-required error naming that argument
\* as its only message, that answer is the last one, no prompt was shown
\* after it and the backend run/watch operation was not invoked.
C2_RequiredMissingAborts ==
    \A r \in Reqs :
        LET s == req[r]
            spec == s.taskInfo.usageSpec
        IN  \A k \in DOMAIN s.answered : \A i \in DOMAIN spec.args :
                (/\ IsArgPrompt(s.answered[k].prompt, spec, i)
                 /\ spec.args[i].required
                 /\ NoAnswer(s.answered[k].answer))
                => /\ s.pc = "done"
                   /\ k = Len(s.answered)
                   /\ Len(s.issued) = k
                   /\ s.pending = <<>>
                   /\ s.calls = <<>>
                   /\ s.msgs = <<FailedToRun(CommandArg(r),
                                             MissingRequiredError(spec.args[i].name))>>

\* The second of two arguments is required and dismissed after the first
\* was given; a flag was still to be asked.
C2_Witness ==
    LET s == req["r1"]
    IN  /\ s.pc = "done"
        /\ Len(s.taskInfo.usageSpec.args) = 2
        /\ Len(s.taskInfo.usageSpec.flags) = 1
        /\ s.taskInfo.usageSpec.args[2].required
        /\ Len(s.answered) = 2
        /\ s.answered[1].answer = "x"
        /\ s.answered[2].answer = Undefined

ToolListed(s) ==
    s.res1.status = "fulfilled" /\ \E i \in DOMAIN s.res1.value : s.res1.value[i] = "watchexec"

ExecutableFound(s) == s.res2.status = "fulfilled" /\ s.res2.stdout # ""

\* C3: once watch has decided, if neither the tool listing has an entry
\* named watchexec nor `which watchexec` printed a path, watch has ended with
\* the watchexec-required message and without task lookup, prompt or backend
\* watch invocation; if one of them found it, the task lookup was made, the
\* watchexec-required message was not shown, and a watch that ended without
\* any error message invoked the backend watch operation once.
C3_WatchPrerequisite ==
    \A r \in Reqs :
        LET s == req[r]
        IN  (s.kind = "watch" /\ s.pc # "probing")
            => IF ~ToolListed(s) /\ ~ExecutableFound(s)
               THEN /\ s.pc = "done"
                    /\ s.msgs = <<WatchexecRequired>>
                    /\ s.lookups = 0
                    /\ s.issued = <<>>
                    /\ s.calls = <<>>
               ELSE /\ s.lookups = 1
                    /\ \A k \in DOMAIN s.msgs : s.msgs[k] # WatchexecRequired
                    /\ (s.pc = "done" /\ s.msgs = <<>>)
                       => /\ Len(s.calls) = 1
                          /\ s.calls[1].op = "watchTask"
                          /\ s.calls[1].name = CommandArg(r)

\* The tool listing has no watchexec entry and `which` printed nothing.
C3_Witness ==
    LET s == req["r1"]
    IN  /\ s.kind = "watch"
        /\ s.pc = "done"
        /\ s.res1 = [status |-> "fulfilled", value |-> <<"node">>]
        /\ s.res2 = [status |-> "fulfilled", stdout |-> ""]

\* C4: for a task whose usage spec has no args and no flags, the collector
\* is not called, no prompt is shown, and the backend run/watch operation is
\* called with the task name and no extra argument.
C4_TrivialSpecSkipsCollector ==
    \A r \in Reqs :
        LET s == req[r]
        IN  (s.taskInfo.found /\ s.taskInfo.usageSpec = EmptySpec)
            => /\ s.collectorCalls = 0
               /\ s.issued = <<>>
               /\ s.pending = <<>>
               /\ s.calls = <<[op |-> BackendOp(s.kind), name |-> CommandArg(r), args |-> <<>>]>>

\* A watch of a task without parameters, its backend call awaited.
C4_Witness ==
    LET s == req["r1"]
    IN  /\ s.kind = "watch"
        /\ s.taskInfo.found
        /\ s.taskInfo.usageSpec = EmptySpec
        /\ s.pc = "invoking"

\* C5: a file event that arrived while the enabled flag was off has made no
\* probe and no callback call, whatever the other events did; the probes
\* made are those of the events that arrived while the flag was on.
C5_DisabledEventIgnored ==
    /\ \A e \in EventIds :
          (events[e].pc # "unused" /\ ~events[e].enabledAtArrival)
          => /\ events[e].pc = "done"
             /\ ~events[e].probed
             /\ events[e].called = 0
    /\ probes = Cardinality({e \in EventIds : events[e].pc # "unused" /\ events[e].enabledAtArrival})
    /\ Len(callbacks) <= probes

\* An event arrives with the flag off while an earlier event's callback is
\* still running.
C5_Witness ==
    /\ events[1].pc = "callback"
    /\ events[2].pc = "done"
    /\ ~events[2].enabledAtArrival
    /\ ~enabled


\* The place of a prompt in the fixed order of a usage spec's prompts: the
\* positional arguments in declaration order, then for each flag in
\* declaration order its yes/no question and its value; 0 for a prompt that
\* is none of the spec's.
PromptRank(p, spec) ==
    IF p.kind = "inputBox" /\ \E i \in DOMAIN spec.args : p.label = spec.args[i].name
    THEN CHOOSE i \in DOMAIN spec.args : p.label = spec.args[i].name
    ELSE IF \E j \in DOMAIN spec.flags : p.label = spec.flags[j].name
    THEN LET j == CHOOSE j \in DOMAIN spec.flags : p.label = spec.flags[j].name
         IN  Len(spec.args) + 2 * j - (IF p.kind = "quickPick" THEN 1 ELSE 0)
    ELSE 0

\* The rank of the prompt that follows the prompt of rank n answered a: the
\* value prompt after a yes to a valued flag's question, else the next
\* argument or the next flag's question.
RankAfter(n, a, spec) ==
    IF n < Len(spec.args) + 1 THEN n + 1
    ELSE LET k == n - Len(spec.args)
             j == (k + 1) \div 2
         IN  IF k % 2 = 1 /\ ~(spec.flags[j].arg # Undefined /\ a = "Yes")
             THEN n + 2
             ELSE n + 1

\* C6: the prompts of a collection are shown one at a time, each after the
\* previous one was answered, in the fixed order: the first prompt is the
\* first of the order, each further prompt is the one the order puts after
\* the previous prompt and its answer, and the backend is invoked only when
\* the order is exhausted.
C6_PromptsSequentialInOrder ==
    \A r \in Reqs :
        LET s == req[r]
            spec == s.taskInfo.usageSpec
            rank(k) == PromptRank(s.issued[k], spec)
        IN  /\ Len(s.pending) <= 1
            /\ Len(s.issued) = Len(s.answered) + Len(s.pending)
            /\ \A k \in DOMAIN s.answered : s.answered[k].prompt = s.issued[k]
            /\ s.pending # <<>> => s.pending[1] = s.issued[Len(s.issued)]
            /\ s.issued # <<>> => rank(1) = 1
            /\ \A k \in DOMAIN s.issued :
                  k > 1 => rank(k) = RankAfter(rank(k - 1), s.answered[k - 1].answer, spec)
            /\ (s.calls # <<>> /\ s.issued # <<>>)
               => RankAfter(rank(Len(s.issued)), s.answered[Len(s.issued)].answer, spec)
                    > Len(spec.args) + 2 * Len(spec.flags)

\* One argument, a valued flag answered yes and given a value, a boolean
\* flag: four prompts, and the backend invoked.
C6_Witness ==
    LET s == req["r1"]
    IN  /\ Len(s.taskInfo.usageSpec.args) = 1
        /\ Len(s.taskInfo.usageSpec.flags) = 2
        /\ s.taskInfo.usageSpec.flags[1].arg # Undefined
        /\ s.taskInfo.usageSpec.flags[2].arg = Undefined
        /\ Len(s.answered) = 4
        /\ s.pc = "invoking"

\* The prompts shown for flag j, as indices of `issued`.
FlagPrompts(s, j) ==
    {k \in DOMAIN s.issued : s.issued[k].label = s.taskInfo.usageSpec.flags[j].name}

\* The prompts shown for positional argument i.
ArgPrompts(s, i) ==
    {k \in DOMAIN s.issued : s.issued[k].label = s.taskInfo.usageSpec.args[i].name}

SetMin(S) == CHOOSE k \in S : \A m \in S : k <= m

SetMax(S) == CHOOSE k \in S : \A m \in S : m <= k

\* A parameter is handled when all its prompts are answered and the
\* collector has moved on.
Handled(s, K) ==
    /\ K # {}
    /\ SetMax(K) <= Len(s.answered)
    /\ SetMax(K) < Len(s.issued) \/ s.pc \in {"invoking", "done"}

\* The tokens collected between the first prompt of K and the prompt after
\* the last prompt of K (the end of the collection when there is none).
Contribution(s, K) ==
    SubSeq(s.cmdArgs,
           s.marks[SetMin(K)] + 1,
           IF SetMax(K) < Len(s.issued) THEN s.marks[SetMax(K) + 1] ELSE Len(s.cmdArgs))

\* C7: a valued flag contributes the two tokens [name, value] when its
\* question was answered yes and its value prompt got a non-empty value, and
\* nothing otherwise; wherever its name stands in the collected sequence,
\* the value follows.
C7_ValuedFlagTokens ==
    \A r \in Reqs :
        LET s == req[r]
            flags == s.taskInfo.usageSpec.flags
        IN  \A j \in DOMAIN flags :
                flags[j].arg # Undefined
                => /\ Handled(s, FlagPrompts(s, j))
                      => LET K == FlagPrompts(s, j)
                             yes == s.answered[SetMin(K)].answer = "Yes"
                             value == s.answered[SetMax(K)].answer
                         IN  IF yes /\ Cardinality(K) = 2 /\ ~NoAnswer(value)
                             THEN Contribution(s, K) = <<flags[j].name, value>>
                             ELSE Contribution(s, K) = <<>>
                   /\ \A n \in DOMAIN s.cmdArgs :
                         s.cmdArgs[n] = flags[j].name
                         => /\ n < Len(s.cmdArgs)
                            /\ s.cmdArgs[n + 1] \in {"x", "y"}

\* Two valued flags after an argument: the first answered yes and "y", the
\* second answered yes and then left empty.
C7_Witness ==
    LET s == req["r1"]
    IN  /\ Len(s.taskInfo.usageSpec.flags) = 2
        /\ s.taskInfo.usageSpec.flags[1].arg # Undefined
        /\ s.taskInfo.usageSpec.flags[2].arg # Undefined
        /\ Len(s.answered) = 5
        /\ s.answered[2].answer = "Yes"
        /\ s.answered[3].answer = "y"
        /\ s.answered[4].answer = "Yes"
        /\ s.answered[5].answer = ""
        /\ s.cmdArgs = <<"x", "--env", "y">>

\* C8: a boolean flag is asked exactly one yes/no question and no value, and
\* contributes the single token [name] when the answer is yes and nothing
\* when it is no or the choice is dismissed.
C8_BooleanFlagTokens ==
    \A r \in Reqs :
        LET s == req[r]
            flags == s.taskInfo.usageSpec.flags
        IN  \A j \in DOMAIN flags :
                flags[j].arg = Undefined
                => /\ \A k \in FlagPrompts(s, j) : s.issued[k].kind = "quickPick"
                   /\ Cardinality(FlagPrompts(s, j)) <= 1
                   /\ Handled(s, FlagPrompts(s, j))
                      => LET K == FlagPrompts(s, j)
                         IN  /\ Cardinality(K) = 1
                             /\ Contribution(s, K)
                                  = IF s.answered[SetMin(K)].answer = "Yes"
                                    THEN <<flags[j].name>>
                                    ELSE <<>>

\* Two boolean flags: the first dismissed, the second enabled.
C8_Witness ==
    LET s == req["r1"]
    IN  /\ Len(s.taskInfo.usageSpec.flags) = 2
        /\ s.taskInfo.usageSpec.flags[1].arg = Undefined
        /\ s.taskInfo.usageSpec.flags[2].arg = Undefined
        /\ Len(s.answered) = 2
        /\ s.answered[1].answer = Undefined
        /\ s.answered[2].answer = "Yes"
        /\ s.pc = "invoking"

\* C9: an optional positional argument answered empty or cancelled does not
\* fail the collection: no missing-required error names it, it contributes
\* no token, and after its answer either the next prompt is shown or the
\* backend has been invoked; a spec of one optional argument answered empty
\* invokes the backend with no extra argument.
C9_OptionalArgOmitted ==
    \A r \in Reqs :
        LET s == req[r]
            spec == s.taskInfo.usageSpec
        IN  \A i \in DOMAIN spec.args : \A k \in ArgPrompts(s, i) :
                (/\ ~spec.args[i].required
                 /\ k <= Len(s.answered)
                 /\ NoAnswer(s.answered[k].answer))
                => /\ \A m \in DOMAIN s.msgs :
                         s.msgs[m].error # MissingRequiredError(spec.args[i].name)
                   /\ Handled(s, {k})
                   /\ Contribution(s, {k}) = <<>>
                   /\ k = Len(s.answered) => (Len(s.pending) = 1 \/ Len(s.calls) = 1)
                   /\ (Len(spec.args) = 1 /\ spec.flags = <<>>)
                      => s.calls = <<[op |-> BackendOp(s.kind), name |-> CommandArg(r),
                                      args |-> <<>>]>>

\* One optional argument, no flag, answered with the empty string.
C9_Witness ==
    LET s == req["r1"]
    IN  /\ Len(s.taskInfo.usageSpec.args) = 1
        /\ s.taskInfo.usageSpec.flags = <<>>
        /\ Len(s.answered) = 1
        /\ s.answered[1].answer = ""
        /\ s.pc = "invoking"

\* What makes run/watch fail: the watch prerequisite missing, the task
\* lookup or the backend run/watch rejecting, the task not found, a required
\* argument left empty.
Failure(s) ==
    \/ s.kind = "watch" /\ s.pc # "probing" /\ ~ToolListed(s) /\ ~ExecutableFound(s)
    \/ \E k \in DOMAIN s.settled : s.settled[k].outcome \in {"rejected", "undefined"}
    \/ \E k \in DOMAIN s.answered : \E i \in DOMAIN s.taskInfo.usageSpec.args :
          /\ IsArgPrompt(s.answered[k].prompt, s.taskInfo.usageSpec, i)
          /\ s.taskInfo.usageSpec.args[i].required
          /\ NoAnswer(s.answered[k].answer)

\* C10: whatever the backend calls and the prompts return, the promise of
\* run/watch is never rejected; a failure ends the operation at once with
\* exactly one error message shown and no prompt left open, and an operation
\* without failure shows none.
C10_NoExceptionEscapes ==
    \A r \in Reqs :
        LET s == req[r]
        IN  /\ s.promise # "rejected"
            /\ Failure(s) => s.pc = "done"
            /\ s.pc = "done" => /\ s.promise = "resolved"
                                /\ s.pending = <<>>
                                /\ Len(s.msgs) = IF Failure(s) THEN 1 ELSE 0
            /\ s.pc # "done" => s.msgs = <<>>

\* A watch whose tool listing rejected, whose arguments were collected and
\* whose backend call then failed.
C10_Witness ==
    LET s == req["r1"]
    IN  /\ s.kind = "watch"
        /\ s.res1.status = "rejected"
        /\ s.pc = "done"
        /\ Len(s.answered) = 2
        /\ Len(s.calls) = 1
        /\ Len(s.msgs) = 1

\* C11: a prerequisite probe that rejects counts as that source not finding
\* watchexec and its error is reported nowhere: watch goes on to the task
\* lookup exactly when a probe that succeeded found watchexec, also when the
\* other probe rejected, and no message of a watch names a probe.
C11_ProbeFailureTolerated ==
    \A r \in Reqs :
        LET s == req[r]
            found1 == s.res1.status = "fulfilled"
                      /\ \E i \in DOMAIN s.res1.value : s.res1.value[i] = "watchexec"
            found2 == s.res2.status = "fulfilled" /\ s.res2.stdout # ""
        IN  (s.kind = "watch" /\ s.pc # "probing")
            => /\ s.lookups = (IF found1 \/ found2 THEN 1 ELSE 0)
               /\ (found1 \/ found2) => \A k \in DOMAIN s.msgs : s.msgs[k] # WatchexecRequired
               /\ ~(found1 \/ found2) => s.msgs = <<WatchexecRequired>>
               /\ \A k \in DOMAIN s.msgs :
                     s.msgs[k].error.about \notin {"probe", "getTools", "which"}
               /\ s.promise # "rejected"

\* The tool listing rejected, `which` printed a path, and the watch reached
\* its backend call.
C11_Witness ==
    LET s == req["r1"]
    IN  /\ s.kind = "watch"
        /\ s.res1.status = "rejected"
        /\ s.res2.status = "fulfilled"
        /\ s.pc = "invoking"
        /\ s.calls[1].op = "watchTask"

\* C12: a probe that fails during file-change handling is logged and
\* swallowed: handleFileChange ends without raising and without calling the
\* callback for that event, and every event that arrives while the enabled
\* flag is on gets its own probe, however many failures were logged before.
C12_ProbeFailureSwallowed ==
    \A e \in EventIds :
        /\ events[e].promise # "rejected"
        /\ events[e].probeResult = "rejected"
           => /\ events[e].pc = "done"
              /\ events[e].promise = "resolved"
              /\ events[e].called = 0
              /\ events[e].logs = 1
              /\ logged >= 1
        /\ (events[e].pc # "unused" /\ events[e].enabledAtArrival) => events[e].probed

\* The first event's probe failed; the second event arrived after that and
\* its own probe returned output.
C12_Witness ==
    /\ events[1].probeResult = "rejected"
    /\ events[2].failuresBefore = 1
    /\ events[2].probeResult = "output"
    /\ events[2].pc = "callback"

\* C13: once dispose() has been called and the initialization has finished,
\* in either order, no watch created by the watcher is still active.
C13_DisposeReleasesAll ==
    (disposeCalled /\ watcherPc \in {"ready", "noRoot", "initFailed"})
    => \A i \in DOMAIN fileWatchers : fileWatchers[i].disposed

\* C14: file events are not coalesced: as many probes are made as events
\* arrived while the enabled flag was on, and for each event the callback is
\* called once with the event's path when its probe returned output and not
\* at all otherwise, also when the cycles of several events overlap.
C14_NoCoalescing ==
    /\ probes = Cardinality({e \in EventIds : events[e].pc # "unused" /\ events[e].enabledAtArrival})
    /\ \A e \in EventIds :
          /\ events[e].probed <=> (events[e].pc # "unused" /\ events[e].enabledAtArrival)
          /\ events[e].called = IF events[e].probeResult = "output" THEN 1 ELSE 0
          /\ events[e].pc = "probing" <=> (events[e].probed /\ events[e].probeResult = "none")
    /\ \A u \in Uris :
          Count(callbacks, u)
            = Cardinality({e \in EventIds : events[e].called = 1 /\ events[e].uri = u})

\* Two events on the same path whose cycles overlap: both probes returned
\* output and both callbacks are running.
C14_Witness ==
    /\ events[1].pc = "callback"
    /\ events[2].pc = "callback"
    /\ events[1].uri = events[2].uri
    /\ Len(callbacks) = 2

\* Position in the fetched sequence of the first task of a group.
FirstOccurrence(source) ==
    SetMin({i \in DOMAIN tasks : GroupKeyOf(tasks[i]) = source})

TasksOf(source) == SelectSeq(tasks, LAMBDA t : GroupKeyOf(t) = source)

\* C15: the groups at root level are in the order in which their sources
\* first occur in the fetched sequence (an absent or empty source counting as
\* "Unknown"), and the tasks of a group are the fetched tasks of that source
\* in the order of the fetched sequence.
C15_GroupOrderIsFetchOrder ==
    /\ \A i, j \in DOMAIN rootChildren :
          i < j => FirstOccurrence(rootChildren[i].source)
                     < FirstOccurrence(rootChildren[j].source)
    /\ \A i \in DOMAIN rootChildren :
          rootChildren[i].tasks = TasksOf(rootChildren[i].source)
    /\ groupChildren # <<>>
       => \E i \in DOMAIN rootChildren :
             groupChildren = [k \in DOMAIN rootChildren[i].tasks |->
                                 TaskItem(rootChildren[i].tasks[k])]

\* The first and third fetched task share a source and differ in name, the
\* second has another source; the first group is expanded.
C15_Witness ==
    /\ Len(tasks) = 3
    /\ GroupKeyOf(tasks[1]) = GroupKeyOf(tasks[3])
    /\ GroupKeyOf(tasks[1]) # GroupKeyOf(tasks[2])
    /\ tasks[1].name # tasks[3].name
    /\ Len(rootChildren) = 2
    /\ Len(groupChildren) = 2
    /\ groupChildren[1].label = tasks[1].name

\* The tokens the answers given for positional argument i stand for.
ArgTokens(s, i) ==
    LET K == ArgPrompts(s, i)
    IN  IF K = {} \/ SetMax(K) > Len(s.answered) THEN <<>>
        ELSE IF NoAnswer(s.answered[SetMin(K)].answer) THEN <<>>
        ELSE <<s.answered[SetMin(K)].answer>>

\* The tokens the answers given for flag j stand for.
FlagTokens(s, j) ==
    LET K == FlagPrompts(s, j)
        flag == s.taskInfo.usageSpec.flags[j]
    IN  IF K = {} \/ SetMax(K) > Len(s.answered) THEN <<>>
        ELSE IF s.answered[SetMin(K)].answer # "Yes" THEN <<>>
        ELSE IF flag.arg = Undefined THEN <<flag.name>>
        ELSE IF Cardinality(K) = 2 /\ ~NoAnswer(s.answered[SetMax(K)].answer)
        THEN <<flag.name, s.answered[SetMax(K)].answer>>
        ELSE <<>>

RECURSIVE ConcatUpTo(_, _)
ConcatUpTo(f, n) == IF n = 0 THEN <<>> ELSE ConcatUpTo(f, n - 1) \o f[n]

\* The token sequence of a request's answers: positional values in
\* declaration order, then flag tokens in declaration order.
ExpectedTokens(s) ==
    LET spec == s.taskInfo.usageSpec
    IN  ConcatUpTo([i \in DOMAIN spec.args |-> ArgTokens(s, i)], Len(spec.args))
          \o ConcatUpTo([j \in DOMAIN spec.flags |-> FlagTokens(s, j)], Len(spec.flags))

\* The collection of a request has ended without a failure.
CollectionSucceeded(s) ==
    /\ s.taskInfo.found
    /\ s.pc \in {"invoking", "done"}
    /\ Len(s.answered) = Len(s.issued)
    /\ \A k \in DOMAIN s.msgs : s.msgs[k].error.type # "RequiredArgumentNotProvided"

\* C16: the backend operation is invoked at most once per request, and once
\* the collection has succeeded exactly once, with the task's name and with
\* the collected token sequence as extra arguments: the positional values
\* in declaration order followed by the flag tokens in declaration order;
\* a failed invocation is not repeated.
C16_BackendGetsCollectedTokens ==
    \A r \in Reqs :
        LET s == req[r]
        IN  /\ Len(s.calls) <= 1
            /\ CollectionSucceeded(s) <=> Len(s.calls) = 1
            /\ \A k \in DOMAIN s.calls :
                  /\ s.calls[k].op = BackendOp(s.kind)
                  /\ s.calls[k].name = s.taskName
                  /\ s.calls[k].args = ExpectedTokens(s)
                  /\ s.collectorCalls = 1 => s.calls[k].args = s.cmdArgs
                  /\ s.collectorCalls = 0 => s.calls[k].args = <<>>

\* A watch with an argument, a valued flag and a boolean flag, all given:
\* four tokens were passed, and the invocation failed.
C16_Witness ==
    LET s == req["r1"]
    IN  /\ s.kind = "watch"
        /\ s.pc = "done"
        /\ Len(s.calls) = 1
        /\ s.calls[1].args = <<"x", "--env", "y", "--verbose">>
        /\ s.msgs = <<FailedToRun(s.taskName, BackendError("watchTask"))>>

\* C17: a watch makes its prerequisite decision only when both probes have
\* settled, whichever settled first; until then it has made no task lookup,
\* shown no prompt or message and invoked nothing, and when the decision is
\* that watchexec is missing it never does.
C17_DecisionAfterBothProbes ==
    \A r \in Reqs :
        LET s == req[r]
            untouched == /\ s.lookups = 0
                         /\ s.settled = <<>>
                         /\ s.collectorCalls = 0
                         /\ s.issued = <<>>
                         /\ s.calls = <<>>
        IN  s.kind = "watch"
            => /\ s.pc = "probing" => (untouched /\ s.msgs = <<>>)
               /\ s.pc # "probing" => (s.res1 # Pending /\ s.res2 # Pending)
               /\ (\E k \in DOMAIN s.msgs : s.msgs[k] = WatchexecRequired)
                  => (untouched /\ s.pc = "done" /\ Len(s.msgs) = 1)

\* The executable probe has settled first and found watchexec; the tool
\* listing is still outstanding and the watch is still waiting.
C17_Witness ==
    LET s == req["r1"]
    IN  /\ s.kind = "watch"
        /\ s.pc = "probing"
        /\ s.res1 = Pending
        /\ s.res2 = [status |-> "fulfilled", stdout |-> "/usr/bin/watchexec"]
        /\ s.lookups = 0

\* C18: when the task lookup returns nothing for the task name, run and
\* watch end with the task-not-found error for that name as their only
\* message: the collector is not called, no prompt is shown and the backend
\* run/watch operation is not invoked.
C18_TaskNotFound ==
    \A r \in Reqs :
        LET s == req[r]
        IN  (\E k \in DOMAIN s.settled :
                s.settled[k] = [call |-> "getTaskInfo", outcome |-> "undefined"])
            => /\ s.pc = "done"
               /\ s.promise = "resolved"
               /\ s.msgs = <<FailedToRun(CommandArg(r), NotFoundError(CommandArg(r)))>>
               /\ s.collectorCalls = 0
               /\ s.issued = <<>>
               /\ s.calls = <<>>
               /\ s.lookups = 1

\* A watch that passed the prerequisite and whose task lookup returned
\* nothing.
C18_Witness ==
    LET s == req["r1"]
    IN  /\ s.kind = "watch"
        /\ s.settled = <<[call |-> "getTaskInfo", outcome |-> "undefined"]>>
        /\ s.msgs # <<>>
        /\ s.msgs[1].error.type = "TaskNotFound"

\* What a request did, without the name of its task and without the
\* answers themselves.
Outcome(s) ==
    [pc |-> s.pc, promise |-> s.promise, kind |-> s.kind,
     prompts |-> s.issued, pending |-> s.pending,
     tokens |-> s.cmdArgs, collectorCalls |-> s.collectorCalls,
     calls |-> [k \in DOMAIN s.calls |-> [op |-> s.calls[k].op, args |-> s.calls[k].args]],
     errors |-> [k \in DOMAIN s.msgs |->
                   [text |-> s.msgs[k].text, type |-> s.msgs[k].error.type,
                    about |-> IF s.msgs[k].error.type = "TaskNotFound"
                              THEN "" ELSE s.msgs[k].error.about]]]

\* C19: a request whose empty text answers are all replaced by
\* cancellations does the same as the request itself at every step: the
\* same prompts, the same collected tokens, the same required-argument
\* failure or none, the same backend invocation or none.  Two answer
\* sequences that differ only in empty against cancelled have the same
\* replacement, hence the same outcome.
C19_CancelIsEmpty ==
    /\ Len(req["r1"].answered) = Len(req["r2"].answered)
    /\ \A k \in DOMAIN req["r1"].answered :
          /\ req["r2"].answered[k].answer = Cancelled(req["r1"].answered[k].answer)
          /\ req["r2"].answered[k].prompt = req["r1"].answered[k].prompt
    /\ Outcome(req["r1"]) = Outcome(req["r2"])

\* An optional argument and a flag value answered empty by one request and
\* cancelled by the other, a further flag value given: both requests invoked
\* the backend with the same tokens.
C19_Witness ==
    LET s1 == req["r1"]
        s2 == req["r2"]
    IN  /\ Len(s1.answered) = 5
        /\ s1.answered[1].answer = "" /\ s2.answered[1].answer = Undefined
        /\ s1.answered[3].answer = "" /\ s2.answered[3].answer = Undefined
        /\ s1.answered[5].answer = "x"
        /\ s1.pc = "invoking"
        /\ s2.calls[1].args = <<"--verbose", "x">>

\* C20: when two requests overlap, every backend invocation of a request
\* has that request's task name and the tokens of that request's own
\* answers; a request invokes the backend exactly when its own collection
\* succeeded, whether or not the other request failed; it shows a message
\* only for a failure of its own; and a step of one request changes nothing
\* of the other.
C20_ArgumentsPrivatePerRequest ==
    /\ [](\A r \in Reqs :
            LET s == req[r]
            IN  /\ \A k \in DOMAIN s.calls :
                      /\ s.calls[k].name = CommandArg(r)
                      /\ s.calls[k].args = ExpectedTokens(s)
                /\ s.collectorCalls = 1 => s.cmdArgs = ExpectedTokens(s)
                /\ CollectionSucceeded(s) <=> Len(s.calls) = 1
                /\ Len(s.msgs) = IF Failure(s) THEN 1 ELSE 0
                /\ \A k \in DOMAIN s.msgs : s.msgs[k].task \in {"", CommandArg(r)})
    /\ [][\A r \in Reqs : req'[r] # req[r] => \A o \in Reqs \ {r} : req'[o] = req[o]]_vars

\* The first request has failed on its required argument while the second,
\* a watch, has collected two tokens from its own prompts and is invoking
\* the backend.
C20_Witness ==
    LET s1 == req["r1"]
        s2 == req["r2"]
    IN  /\ s1.pc = "done"
        /\ s1.msgs = <<FailedToRun("build", MissingRequiredError(ArgName(1)))>>
        /\ s1.calls = <<>>
        /\ s2.kind = "watch"
        /\ s2.pc = "invoking"
        /\ s2.calls = <<[op |-> "watchTask", name |-> "test", args |-> <<"y", "--env">>]>>

====
